---- MODULE Spec2Model ----
(***************************************************************************)
(* The multiset/collection algebra of rs-differential-dataflow             *)
(* (src/src/multiset.rs, src/src/collection.rs): record-multiplicity       *)
(* pairs, collections of them, and the operators concat, negate, map,      *)
(* filter, reduce (count, sum, distinct, consolidate), join and iterate,   *)
(* driven by a caller that builds collections and applies the operators.   *)
(***************************************************************************)
EXTENDS Integers, Sequences, FiniteSets, TLC

(***************************************************************************)
(* Bounds of the model and the value universes the caller draws from.      *)
(***************************************************************************)
MaxLen == 3
MaxLenA == 2
MaxLenB == 2
MaxLenI == 2
MaxLenW == 2

\* Records are any totally ordered type T; integers stand for them
\* ("apple" < "orange" < "pear" as 1 < 2 < 3).
Records == {1, 2}
\* Multiplicities of the caller's pairs: a retraction, absent, insertions.
Mults == {-1, 0, 1, 2}

(***************************************************************************)
(* i32 arithmetic.  The wrapped result is what a release build computes;   *)
(* a debug build panics where the *Overflows predicate holds.              *)
(***************************************************************************)
MaxI32 == 2147483647
MinI32 == (-2147483647) - 1

I32NegOverflows(m) == m = MinI32
I32Neg(m) == IF m = MinI32 THEN MinI32 ELSE -m

I32AddOverflows(x, y) ==
    \/ y > 0 /\ x > MaxI32 - y
    \/ y < 0 /\ x < MinI32 - y
I32Add(x, y) ==
    IF y > 0 /\ x > MaxI32 - y
    THEN ((x - MaxI32) - 1) + ((y - MaxI32) - 1)
    ELSE IF y < 0 /\ x < MinI32 - y
    THEN ((x + MaxI32) + 1) + ((y + MaxI32) + 1)
    ELSE x + y

Abs(x) == IF x < 0 THEN -x ELSE x
I32MulOverflows(x, y) ==
    IF x = 0 \/ y = 0 THEN FALSE
    ELSE IF x = MinI32 THEN y # 1
    ELSE IF y = MinI32 THEN x # 1
    ELSE LET q == MaxI32 \div Abs(y)
         IN  IF (x > 0) = (y > 0)
             THEN Abs(x) > q
             ELSE /\ Abs(x) > q
                  /\ ~(Abs(x) = q + 1 /\ MaxI32 % Abs(y) = Abs(y) - 1)
\* x * y modulo 2^32, computed on 16-bit and 8-bit limbs so that no
\* intermediate value leaves the 32-bit range.
I32Mul(x, y) ==
    IF ~I32MulOverflows(x, y) THEN x * y
    ELSE LET xl == x % 65536
             xh == (x - xl) \div 65536
             yl == y % 65536
             yh == (y - yl) \div 65536
             xll == xl % 256
             xlh == xl \div 256
             u == xlh * yl
             v == xll * yl
             lowSum == (u % 256) * 256 + (v % 65536)
             lo == lowSum % 65536
             carry == lowSum \div 65536
             cross == ((xh * yl) % 65536) + ((xl * yh) % 65536)
             hi == ((u \div 256) + (v \div 65536) + carry + cross) % 65536
         IN  IF hi >= 32768 THEN (hi - 65536) * 65536 + lo
             ELSE hi * 65536 + lo

(***************************************************************************)
(* MultiSet<T>: a record with a signed multiplicity.                       *)
(***************************************************************************)
MultiSet(record, multiplicity) ==
    [record |-> record, multiplicity |-> multiplicity]

\* MultiSet::eq: record and multiplicity both equal.
MultiSetEq(x, y) == x.record = y.record /\ x.multiplicity = y.multiplicity

Pairs == {MultiSet(r, m) : r \in Records, m \in Mults}

\* Collection<T>(Vec<MultiSet<T>>): the sequences of at most n pairs.
Collections(n) == UNION {[1..k -> Pairs] : k \in 0..n}

\* Multiplicities over the whole width of i32: the extremes and small values.
WideMults == {MinI32, -1, 1, 2, MaxI32}
WidePairs == {MultiSet(r, m) : r \in Records, m \in WideMults}
WideCollections(n) == UNION {[1..k -> WidePairs] : k \in 0..n}

(***************************************************************************)
(* Sorting.                                                                *)
(***************************************************************************)
\* Vec::sort_by_key(|ms| ms.record): a stable sort, pairs of one record keep
\* their relative order.
RECURSIVE InsertByKey(_, _)
InsertByKey(sorted, ms) ==
    IF sorted = <<>> THEN <<ms>>
    ELSE IF Head(sorted).record <= ms.record
         THEN <<Head(sorted)>> \o InsertByKey(Tail(sorted), ms)
         ELSE <<ms>> \o sorted

RECURSIVE SortByKey(_)
SortByKey(vec) ==
    IF vec = <<>> THEN <<>>
    ELSE InsertByKey(SortByKey(SubSeq(vec, 1, Len(vec) - 1)), vec[Len(vec)])

\* The comparator of reduce's sort: record, then multiplicity.
RecordThenMultiplicityLeq(x, y) ==
    \/ x.record < y.record
    \/ x.record = y.record /\ x.multiplicity <= y.multiplicity

RECURSIVE InsertByRecordThenMultiplicity(_, _)
InsertByRecordThenMultiplicity(sorted, ms) ==
    IF sorted = <<>> THEN <<ms>>
    ELSE IF RecordThenMultiplicityLeq(Head(sorted), ms)
         THEN <<Head(sorted)>> \o InsertByRecordThenMultiplicity(Tail(sorted), ms)
         ELSE <<ms>> \o sorted

\* Vec::sort_unstable_by on (record, multiplicity): pairs that compare equal
\* are identical, so the result does not depend on the algorithm.
RECURSIVE SortUnstableBy(_)
SortUnstableBy(vec) ==
    IF vec = <<>> THEN <<>>
    ELSE InsertByRecordThenMultiplicity(
             SortUnstableBy(SubSeq(vec, 1, Len(vec) - 1)), vec[Len(vec)])

(***************************************************************************)
(* Collection: equality and the core operators.                            *)
(***************************************************************************)
\* Vec<MultiSet>::eq: same length, equal pairs position by position.
VecEq(x, y) ==
    /\ Len(x) = Len(y)
    /\ \A i \in 1..Len(x) : MultiSetEq(x[i], y[i])

\* impl PartialEq for Collection: sort both sides by record, compare.
CollectionEq(self, other) == VecEq(SortByKey(self), SortByKey(other))

\* Mutant: out.extend(other.0) forgotten.
ConcatWithoutOther(self, other) == self

Concat(self, other) == self \o other

\* Mutant: the multiplicities keep their sign.
NegateKeepingSign(self) == self

NegateOverflows(self) ==
    \E i \in 1..Len(self) : I32NegOverflows(self[i].multiplicity)
Negate(self) ==
    [i \in 1..Len(self) |->
        MultiSet(self[i].record, I32Neg(self[i].multiplicity))]

\* Mutant: the mapped pairs collected in record order.
MapSorted(self, f) == SortByKey([i \in 1..Len(self) |-> f[self[i]]])

\* Collection::map: f applied to every pair, in order.
Map(self, f) == [i \in 1..Len(self) |-> f[self[i]]]

\* Collection::filter: the pairs f accepts, in order.
Filter(self, f) == LET Accepts(ms) == f[ms] IN SelectSeq(self, Accepts)

(***************************************************************************)
(* reduce and the aggregates built on it.                                  *)
(***************************************************************************)
\* The keys of reduce's HashMap.
KeysOf(self) == {self[i].record : i \in 1..Len(self)}

\* Mutant: a group keeps only the first entry pushed for its record.
GroupFirstOnly(self, k) ==
    LET hits == {i \in 1..Len(self) : self[i].record = k}
    IN  IF hits = {} THEN <<>>
        ELSE <<self[CHOOSE i \in hits : \A j \in hits : i <= j]>>

\* keys[k]: the entries pushed for record k, in input order, each with its
\* own multiplicity.
RECURSIVE Group(_, _)
Group(self, k) ==
    IF self = <<>> THEN <<>>
    ELSE IF Head(self).record = k
         THEN <<Head(self)>> \o Group(Tail(self), k)
         ELSE Group(Tail(self), k)

\* The sequences that list every element of a set once.
RECURSIVE Orderings(_)
Orderings(S) ==
    IF S = {} THEN {<<>>}
    ELSE UNION {{<<x>> \o rest : rest \in Orderings(S \ {x})} : x \in S}

\* The orders in which `for (_key, vals) in keys` may visit the groups.
KeyOrders(self) == Orderings(KeysOf(self))

\* count's closure: vals.len() as i32, with the record of vals[0].
CountF(vals) == <<MultiSet(vals[1].record, Len(vals))>>

\* Iterator::sum over the multiplicities, left to right from 0.
RECURSIVE SumMultiplicities(_)
SumMultiplicities(vals) ==
    IF vals = <<>> THEN 0
    ELSE I32Add(SumMultiplicities(SubSeq(vals, 1, Len(vals) - 1)),
                vals[Len(vals)].multiplicity)

RECURSIVE SumOverflows(_)
SumOverflows(vals) ==
    IF vals = <<>> THEN FALSE
    ELSE \/ SumOverflows(SubSeq(vals, 1, Len(vals) - 1))
         \/ I32AddOverflows(SumMultiplicities(SubSeq(vals, 1, Len(vals) - 1)),
                            vals[Len(vals)].multiplicity)

\* sum's closure.
SumF(vals) == <<MultiSet(vals[1].record, SumMultiplicities(vals))>>

\* A set's elements in ascending order.
RECURSIVE SetToSeq(_)
SetToSeq(S) ==
    IF S = {} THEN <<>>
    ELSE LET m == CHOOSE x \in S : \A y \in S : x <= y
         IN  <<m>> \o SetToSeq(S \ {m})

\* Mutant: one result per entry, the HashSet forgotten.
DistinctFPerEntry(vals) ==
    [i \in 1..Len(vals) |-> MultiSet(vals[i].record, 1)]

\* distinct's closure: the HashSet of the group's records, each with
\* multiplicity 1.  A group holds one record, so the set has one element and
\* one iteration order.
DistinctF(vals) ==
    LET distinct == SetToSeq({vals[i].record : i \in 1..Len(vals)})
    IN  [i \in 1..Len(distinct) |-> MultiSet(distinct[i], 1)]

\* consolidate's closure: a running count; an entry is emitted when it is
\* positive and the running count equals it.
RECURSIVE ConsolidateLoop(_, _)
ConsolidateLoop(vals, count) ==
    IF vals = <<>> THEN <<>>
    ELSE LET multiplicity == Head(vals).multiplicity
             next == I32Add(count, multiplicity)
         IN  (IF multiplicity > 0 /\ next = multiplicity
              THEN <<MultiSet(Head(vals).record, multiplicity)>>
              ELSE <<>>)
             \o ConsolidateLoop(Tail(vals), next)

ConsolidateF(vals) == ConsolidateLoop(vals, 0)

\* The closure an aggregate passes to reduce.
ApplyClosure(f, vals) ==
    CASE f = "count" -> CountF(vals)
      [] f = "sum" -> SumF(vals)
      [] f = "distinct" -> DistinctF(vals)
      [] f = "consolidate" -> ConsolidateF(vals)

\* `count += multiplicity` and Iterator::sum overflow alike.
ClosureOverflows(f, vals) ==
    f \in {"sum", "consolidate"} /\ SumOverflows(vals)

\* The flattened results of the groups, visited in the given order.
RECURSIVE ReduceGroups(_, _, _)
ReduceGroups(self, f, order) ==
    IF order = <<>> THEN <<>>
    ELSE ApplyClosure(f, Group(self, Head(order)))
         \o ReduceGroups(self, f, Tail(order))

Reduce(self, f, order) == SortUnstableBy(ReduceGroups(self, f, order))

ReduceOverflows(self, f) ==
    \E k \in KeysOf(self) : ClosureOverflows(f, Group(self, k))

Count(self, order) == Reduce(self, "count", order)
Sum(self, order) == Reduce(self, "sum", order)
Distinct(self, order) == Reduce(self, "distinct", order)
Consolidate(self, order) == Reduce(self, "consolidate", order)

(***************************************************************************)
(* join.                                                                   *)
(***************************************************************************)
\* For one pair of self, the products with the matching pairs of other.
RECURSIVE JoinMatches(_, _)
JoinMatches(ms1, other) ==
    IF other = <<>> THEN <<>>
    ELSE (IF ms1.record = Head(other).record
          THEN <<MultiSet(ms1.record,
                          I32Mul(ms1.multiplicity, Head(other).multiplicity))>>
          ELSE <<>>)
         \o JoinMatches(ms1, Tail(other))

RECURSIVE JoinFlatMap(_, _)
JoinFlatMap(self, other) ==
    IF self = <<>> THEN <<>>
    ELSE JoinMatches(Head(self), other) \o JoinFlatMap(Tail(self), other)

\* filter(|ms| records.insert(ms.record)): the first pair of each record.
RECURSIVE JoinDedup(_, _)
JoinDedup(out, records) ==
    IF out = <<>> THEN <<>>
    ELSE IF Head(out).record \in records
         THEN JoinDedup(Tail(out), records)
         ELSE <<Head(out)>> \o JoinDedup(Tail(out), records \cup {Head(out).record})

\* Mutant: the matching pairs of self, with their own multiplicities.
JoinKeepingSelf(self, other) ==
    LET Matched(ms) == \E j \in 1..Len(other) : other[j].record = ms.record
    IN  SelectSeq(self, Matched)

Join(self, other) == JoinDedup(JoinFlatMap(self, other), {})

JoinOverflows(self, other) ==
    \E i \in 1..Len(self), j \in 1..Len(other) :
        /\ self[i].record = other[j].record
        /\ I32MulOverflows(self[i].multiplicity, other[j].multiplicity)

(***************************************************************************)
(* iterate, and the functions the caller iterates.                         *)
(***************************************************************************)
\* The largest record the fixpoint scenario keeps.
Limit == 5

\* The closures of the scenario, as functions of a pair.
AnyPair == [record : Int, multiplicity : Int]
AddOneToRecord ==
    [ms \in AnyPair |-> MultiSet(ms.record + 1, ms.multiplicity)]
RecordWithinLimit == [ms \in AnyPair |-> ms.record <= Limit]

\* The closure of test_add_one: the record kept, multiplicity + 1.
AddOneToMultiplicity ==
    [ms \in AnyPair |-> MultiSet(ms.record, I32Add(ms.multiplicity, 1))]

\* The closures the caller passes to map.
MapFns == {"add_one", "add_one_to_record"}
MapClosure(g) ==
    IF g = "add_one" THEN AddOneToMultiplicity ELSE AddOneToRecord

\* multiplicity + 1 overflows on i32::MAX.
MapOverflows(self, g) ==
    /\ g = "add_one"
    /\ \E i \in 1..Len(self) : I32AddOverflows(self[i].multiplicity, 1)

\* The collection the scenario's closure hands to distinct: every record
\* plus one, concatenated with the round's input, records <= Limit kept.
SuccessorsUpToLimit(coll) ==
    Filter(Concat(Map(coll, AddOneToRecord), coll), RecordWithinLimit)

\* A closure that moves the first pair behind the others.
Rotate(coll) == IF coll = <<>> THEN <<>> ELSE Tail(coll) \o <<Head(coll)>>

Fns == {"successors", "sum", "negate", "rotate"}

\* The collection whose groups the closure's reduce visits, if it has one.
ReducedBy(f, coll) ==
    CASE f = "successors" -> SuccessorsUpToLimit(coll)
      [] f = "sum" -> coll
      [] OTHER -> <<>>

\* f(&curr), with the order in which its reduce visits the groups.
ApplyFn(f, coll, order) ==
    CASE f = "successors" -> Distinct(SuccessorsUpToLimit(coll), order)
      [] f = "sum" -> Sum(coll, order)
      [] f = "negate" -> Negate(coll)
      [] f = "rotate" -> Rotate(coll)

\* The collections f(&curr) may return: one for each order in which its
\* reduce may visit the groups.
Successors(f, coll) ==
    {ApplyFn(f, coll, order) : order \in KeyOrders(ReducedBy(f, coll))}

\* Mutant: the loop breaks when the lengths agree.
IterateBreaksOnLength(result, current) == Len(result) = Len(current)

\* `result.0 == curr.0`: the vectors, pair by pair.
IterateBreaks(result, current) == VecEq(result, current)

(***************************************************************************)
(* State: the caller's collections and the call in progress.               *)
(***************************************************************************)
VARIABLES
    a,      \* the collection the caller applies operators to (self)
    b,      \* the other operand of the last binary operator
    op,     \* the last operator applied
    out,    \* the collection it returned
    eqres,  \* the result of the last ==
    from,   \* the operator that produced a ("new": built by the caller)
    pc,     \* "idle", "loop" (inside iterate), "done" (iterate returned), "panic"
    fn,     \* the closure passed to iterate
    curr    \* iterate's curr

vars == <<a, b, op, out, eqres, from, pc, fn, curr>>

\* The reorderings of a collection's pairs.
Reorderings(coll) ==
    LET n == Len(coll)
    IN  {[i \in 1..n |-> coll[p[i]]] :
            p \in {q \in [1..n -> 1..n] : \A i, j \in 1..n : q[i] = q[j] => i = j}}

Builds == {"debug", "release"}

Init ==
    /\ a \in Collections(MaxLen)
    /\ b = <<>>
    /\ op = "new"
    /\ out = <<>>
    /\ eqres = FALSE
    /\ from = "new"
    /\ pc = "idle"
    /\ fn = "none"
    /\ curr = <<>>

\* An operator returns result, or panics where the arithmetic overflows in a
\* debug build.
Return(name, other, result, overflows) ==
    /\ op' = name
    /\ b' = other
    /\ \E build \in Builds :
          IF overflows /\ build = "debug"
          THEN pc' = "panic" /\ out' = <<>>
          ELSE pc' = pc /\ out' = result
    /\ UNCHANGED <<a, eqres, from, fn, curr>>

\* The caller applies one operator to a collection it built or was handed.
Ready == pc = "idle" /\ op \in {"new", "feed"}

DoNegate ==
    /\ Ready
    /\ Return("negate", <<>>, Negate(a), NegateOverflows(a))

\* a.map(g), for g one of the caller's closures.
DoMap ==
    /\ Ready
    /\ \E g \in MapFns, build \in Builds :
          /\ fn' = g
          /\ IF MapOverflows(a, g) /\ build = "debug"
             THEN pc' = "panic" /\ out' = <<>>
             ELSE pc' = pc /\ out' = Map(a, MapClosure(g))
    /\ op' = "map"
    /\ b' = <<>>
    /\ UNCHANGED <<a, eqres, from, curr>>

DoConcat ==
    /\ Ready
    /\ \E other \in Collections(MaxLenB) :
          Return("concat", other, Concat(a, other), FALSE)

\* a.concat(a.negate()): a minus itself.
DoConcatNegate ==
    /\ Ready
    /\ Return("concat_negate", <<>>, Concat(a, Negate(a)), NegateOverflows(a))

DoCount ==
    /\ Ready
    /\ \E order \in KeyOrders(a) :
          Return("count", <<>>, Count(a, order), ReduceOverflows(a, "count"))

DoSum ==
    /\ Ready
    /\ \E order \in KeyOrders(a) :
          Return("sum", <<>>, Sum(a, order), ReduceOverflows(a, "sum"))

DoDistinct ==
    /\ Ready
    /\ \E order \in KeyOrders(a) :
          Return("distinct", <<>>, Distinct(a, order),
                 ReduceOverflows(a, "distinct"))

DoConsolidate ==
    /\ Ready
    /\ \E order \in KeyOrders(a) :
          Return("consolidate", <<>>, Consolidate(a, order),
                 ReduceOverflows(a, "consolidate"))

DoJoin ==
    /\ Ready
    /\ \E other \in Collections(MaxLenB) :
          Return("join", other, Join(a, other), JoinOverflows(a, other))

\* a == other, for other a reordering of a, its negation or the empty
\* collection.
DoEq ==
    /\ Ready
    /\ from = "new"
    /\ \E other \in Reorderings(a) \cup {Negate(a), <<>>} :
          /\ b' = other
          /\ eqres' = CollectionEq(a, other)
    /\ op' = "eq"
    /\ UNCHANGED <<a, out, from, pc, fn, curr>>

\* The caller applies the next operator to the last result.
Feed ==
    /\ pc = "idle"
    /\ from = "new"
    /\ op \in {"concat_negate", "distinct", "consolidate"}
    /\ a' = out
    /\ from' = op
    /\ op' = "feed"
    /\ out' = <<>>
    /\ UNCHANGED <<b, eqres, pc, fn, curr>>

\* iterate(&self, f): curr = self.  On its own result, the same f again.
IterateStart ==
    /\ Ready
    /\ \E f \in (IF from = "iterate" THEN {fn} ELSE Fns) : fn' = f
    /\ curr' = a
    /\ pc' = "loop"
    /\ op' = "iterate"
    /\ UNCHANGED <<a, b, out, eqres, from>>

\* One round of the loop: result = f(&curr); break if result.0 == curr.0,
\* else curr = result.
IterateStep ==
    /\ pc = "loop"
    /\ \E result \in Successors(fn, curr) :
          IF IterateBreaks(result, curr)
          THEN pc' = "done" /\ out' = curr /\ curr' = curr
          ELSE pc' = pc /\ out' = out /\ curr' = result
    /\ UNCHANGED <<a, b, op, eqres, from, fn>>

\* The caller iterates the collection iterate returned.
IterateAgain ==
    /\ pc = "done"
    /\ from = "new"
    /\ a' = out
    /\ from' = "iterate"
    /\ op' = "feed"
    /\ pc' = "idle"
    /\ out' = <<>>
    /\ curr' = <<>>
    /\ UNCHANGED <<b, eqres, fn>>

\* The unary operators and ==.
Next ==
    \/ DoNegate
    \/ DoMap
    \/ DoConcatNegate
    \/ DoCount
    \/ DoSum
    \/ DoDistinct
    \/ DoConsolidate
    \/ DoEq
    \/ Feed

Spec == Init /\ [][Next]_vars

\* The binary operators, on a shorter self.
InitBinary == Init /\ Len(a) <= MaxLenA

NextBinary ==
    \/ DoConcat
    \/ DoJoin

SpecBinary == InitBinary /\ [][NextBinary]_vars

\* The arithmetic operators on multiplicities of the whole i32 range.
InitWide ==
    /\ a \in WideCollections(MaxLenW)
    /\ b = <<>>
    /\ op = "new"
    /\ out = <<>>
    /\ eqres = FALSE
    /\ from = "new"
    /\ pc = "idle"
    /\ fn = "none"
    /\ curr = <<>>

DoJoinWide ==
    /\ Ready
    /\ \E other \in WideCollections(MaxLenB) :
          Return("join", other, Join(a, other), JoinOverflows(a, other))

NextWide ==
    \/ DoNegate
    \/ DoCount
    \/ DoSum
    \/ DoJoinWide

SpecWide == InitWide /\ [][NextWide]_vars

\* iterate.
NextIterate ==
    \/ IterateStart
    \/ IterateStep
    \/ IterateAgain

InitIterate == Init /\ Len(a) <= MaxLenI

\* iterate's loop runs to completion on the caller's thread: weak fairness
\* of IterateStep, WF_vars(IterateStep), with ENABLED <<IterateStep>>_vars
\* written out as pc = "loop" (a round either breaks or changes curr).
LoopFairness == []<>(pc # "loop") \/ []<><<IterateStep>>_vars

SpecIterate == InitIterate /\ [][NextIterate]_vars /\ LoopFairness

(***************************************************************************)
(* Vocabulary of the properties.                                           *)
(***************************************************************************)
\* How often a pair occurs in a collection.
Occurrences(coll, p) == Cardinality({i \in 1..Len(coll) : coll[i] = p})

\* The positions of a record's pairs.
PositionsOf(coll, r) == {i \in 1..Len(coll) : coll[i].record = r}

\* The same pairs, each as often, in any order.
SamePairs(x, y) ==
    /\ Len(x) = Len(y)
    /\ \A i \in 1..Len(x) : Occurrences(x, x[i]) = Occurrences(y, x[i])

\* The sum of all multiplicities of a record.
RECURSIVE NetMultiplicity(_, _)
NetMultiplicity(coll, r) ==
    IF coll = <<>> THEN 0
    ELSE (IF Head(coll).record = r THEN Head(coll).multiplicity ELSE 0)
         + NetMultiplicity(Tail(coll), r)

\* result holds one pair (r, net) for each record of coll whose net
\* multiplicity is nonzero, and nothing else.
IsConsolidationOf(result, coll) ==
    \A r \in KeysOf(coll) \cup KeysOf(result) :
        LET net == NetMultiplicity(coll, r)
            hits == PositionsOf(result, r)
        IN  IF r \in KeysOf(coll) /\ net # 0
            THEN /\ Cardinality(hits) = 1
                 /\ \A i \in hits : result[i].multiplicity = net
            ELSE hits = {}

(***************************************************************************)
(* C1. consolidate(A) holds, for each record of A, exactly one pair with   *)
(* the sum of the record's multiplicities when that sum is nonzero, no     *)
(* pair when it is zero, and nothing else.                                 *)
(***************************************************************************)
C1_ConsolidateNetSums ==
    (pc = "idle" /\ op = "consolidate") => IsConsolidationOf(out, a)

(***************************************************************************)
(* C2. join(A, B) holds exactly one pair for every combination of a pair   *)
(* of A and a pair of B with the same record, with the product of the two  *)
(* multiplicities, and no other pair.                                      *)
(***************************************************************************)
\* The combinations of a pair of x and a pair of y that give the pair p.
MatchesGiving(x, y, p) ==
    {ij \in (1..Len(x)) \X (1..Len(y)) :
        /\ x[ij[1]].record = y[ij[2]].record
        /\ p = MultiSet(x[ij[1]].record,
                        x[ij[1]].multiplicity * y[ij[2]].multiplicity)}

\* The pairs a faithful join of x and y may hold.
ProductPairs(x, y) ==
    {MultiSet(x[ij[1]].record, x[ij[1]].multiplicity * y[ij[2]].multiplicity) :
        ij \in {kl \in (1..Len(x)) \X (1..Len(y)) :
                    x[kl[1]].record = y[kl[2]].record}}

C2_JoinKeepsEveryMatch ==
    (pc = "idle" /\ op = "join") =>
        \A p \in ProductPairs(a, b) \cup {out[i] : i \in 1..Len(out)} :
            Occurrences(out, p) = Cardinality(MatchesGiving(a, b, p))

(***************************************************************************)
(* C3. Collection equality ignores pair order: a collection equals every   *)
(* reordering of its pairs, also when a record has several pairs.          *)
(***************************************************************************)
C3_EqIgnoresPairOrder ==
    (op = "eq" /\ SamePairs(a, b)) => eqres

(***************************************************************************)
(* C4. iterate stops at the first round in which f(current) holds the same *)
(* pairs as current, in any order, and returns that collection; so once a  *)
(* round's output is a reordering of its input, iterate terminates.        *)
(***************************************************************************)
\* f(curr) is a reordering of curr.
RoundReorders ==
    \E result \in Successors(fn, curr) : SamePairs(result, curr)

C4_IterateStopsOnReordering ==
    /\ [][(pc = "loop" /\ RoundReorders) => (pc' = "done" /\ out' = curr)]_vars
    /\ ((pc = "loop" /\ RoundReorders) ~> (pc = "done"))

(***************************************************************************)
(* C5. Fixpoint stability: when iterate(A, f) returns R, R is the first    *)
(* collection of A, f(A), f(f(A)), ... that equals its own successor,      *)
(* f(R) == R holds, and iterate(R, f) returns a collection equal to R.     *)
(* "Equals its successor" is the comparison the loop makes, pair by pair.  *)
(***************************************************************************)
\* coll equals its own successor.
IsFixed(f, coll) == \A next \in Successors(f, coll) : VecEq(next, coll)

\* The sequence starts at A and each round moves to the successor, never
\* past a collection that equals its successor.
C5_Sequence ==
    /\ (pc = "idle" /\ pc' = "loop") => curr' = a
    /\ (pc = "loop" /\ pc' = "loop") =>
          /\ curr' \in Successors(fn, curr)
          /\ ~IsFixed(fn, curr)
    /\ (pc = "loop" /\ pc' = "done") => out' = curr

\* The returned collection equals its successor, and iterating it again
\* returns an equal collection.
C5_Returned ==
    pc = "done" =>
        /\ IsFixed(fn, out)
        /\ \A next \in Successors(fn, out) : CollectionEq(next, out)
        /\ from = "iterate" => CollectionEq(out, a)

C5_FixpointStability == []C5_Returned /\ [][C5_Sequence]_vars

\* iterate returned after several rounds and returned again on its result.
C5_Witness ==
    /\ pc = "done"
    /\ from = "iterate"
    /\ fn = "successors"
    /\ Len(out) = Limit

(***************************************************************************)
(* C6. From [(1,1)], iterating "add 1 to each record, concat with the      *)
(* round's input, keep records <= 5, distinct" terminates and returns      *)
(* exactly (1,1),(2,1),(3,1),(4,1),(5,1); every round's collection holds   *)
(* each record of 1..n once with multiplicity 1, for a strictly growing    *)
(* n <= 5.                                                                 *)
(***************************************************************************)
\* The records 1..n, each once with multiplicity 1.
OneTo(n) == [i \in 1..n |-> MultiSet(i, 1)]

InScenario ==
    /\ a = <<MultiSet(1, 1)>>
    /\ from = "new"
    /\ fn = "successors"
    /\ pc \in {"loop", "done"}

C6_Rounds ==
    InScenario =>
        /\ \E n \in 1..Limit : curr = OneTo(n)
        /\ pc = "done" => out = OneTo(Limit)

C6_Grows ==
    (InScenario /\ pc = "loop" /\ pc' = "loop") => Len(curr') > Len(curr)

C6_FixpointScenario ==
    /\ []C6_Rounds
    /\ [][C6_Grows]_vars
    /\ ((InScenario /\ pc = "loop") ~> (InScenario /\ pc = "done"))

C6_Witness ==
    /\ InScenario
    /\ pc = "done"
    /\ out = <<MultiSet(1, 1), MultiSet(2, 1), MultiSet(3, 1), MultiSet(4, 1),
               MultiSet(5, 1)>>

(***************************************************************************)
(* C7. consolidate is idempotent: consolidate(consolidate(A)) equals       *)
(* consolidate(A), also when a record has pairs of positive, zero and      *)
(* negative multiplicity.                                                  *)
(***************************************************************************)
C7_ConsolidateIdempotent ==
    (pc = "idle" /\ op = "consolidate" /\ from = "consolidate") =>
        CollectionEq(out, a)

(***************************************************************************)
(* C8. count, sum, distinct and consolidate return the same pair sequence  *)
(* on a collection and on every reordering of its pairs, whatever order    *)
(* the groups are visited in.                                              *)
(***************************************************************************)
C8_AggregatesIgnoreInputOrder ==
    (pc = "idle" /\ op \in {"count", "sum", "distinct", "consolidate"}) =>
        \A other \in Reorderings(a) :
            \A order \in KeyOrders(other) : Reduce(other, op, order) = out

(***************************************************************************)
(* C9. sum(concat(A, negate(A))) has, for every record of A, exactly one   *)
(* pair, and that pair has multiplicity 0.                                 *)
(***************************************************************************)
C9_SumOfSelfDifferenceIsZero ==
    (pc = "idle" /\ op = "sum" /\ from = "concat_negate") =>
        \A r \in KeysOf(a) :
            /\ Cardinality(PositionsOf(out, r)) = 1
            /\ \A i \in PositionsOf(out, r) : out[i].multiplicity = 0

\* A of two records, one with several pairs, summed after a.concat(a.negate()).
C9_Witness ==
    /\ pc = "idle"
    /\ op = "sum"
    /\ from = "concat_negate"
    /\ Len(a) = 2 * MaxLen
    /\ Cardinality(KeysOf(a)) = 2
    /\ \E i \in 1..Len(a) : a[i].multiplicity = 2

(***************************************************************************)
(* C10. distinct(A) holds exactly one pair (r, 1) for each record r of A,  *)
(* whatever the number and the multiplicities of r's pairs, and nothing    *)
(* else; so distinct(distinct(A)) == distinct(A), and distinct of the      *)
(* empty collection is empty.                                              *)
(***************************************************************************)
C10_DistinctProjectsPresence ==
    (pc = "idle" /\ op = "distinct") =>
        /\ \A r \in KeysOf(a) :
              /\ Cardinality(PositionsOf(out, r)) = 1
              /\ \A i \in PositionsOf(out, r) : out[i].multiplicity = 1
        /\ KeysOf(out) \subseteq KeysOf(a)
        /\ from = "distinct" => CollectionEq(out, a)
        /\ a = <<>> => out = <<>>

\* distinct of a record with a negative, a zero and a positive pair.
C10_Witness ==
    /\ pc = "idle"
    /\ op = "distinct"
    /\ Len(a) = 3
    /\ Cardinality(KeysOf(a)) = 1
    /\ {a[i].multiplicity : i \in 1..Len(a)} = {-1, 0, 2}
    /\ Len(out) = 1

(***************************************************************************)
(* C11. map(A, f) has as many pairs as A and its i-th pair is f of A's     *)
(* i-th pair, in input order; adding 1 to every multiplicity gives each    *)
(* record of A, in its position, with its multiplicity plus one.           *)
(***************************************************************************)
C11_MapAppliesPairwise ==
    (pc = "idle" /\ op = "map") =>
        /\ Len(out) = Len(a)
        /\ \A i \in 1..Len(a) :
              IF fn = "add_one"
              THEN /\ out[i].record = a[i].record
                   /\ out[i].multiplicity = a[i].multiplicity + 1
              ELSE /\ out[i].record = a[i].record + 1
                   /\ out[i].multiplicity = a[i].multiplicity

\* map has added one to the multiplicities of a collection whose records
\* are not in ascending order.
C11_Witness ==
    /\ pc = "idle"
    /\ op = "map"
    /\ fn = "add_one"
    /\ Len(a) = MaxLen
    /\ a[1].record > a[2].record
    /\ out[1].multiplicity = 3

(***************************************************************************)
(* C12. On multiplicities anywhere in the i32 range negate, sum, join and  *)
(* count neither abort nor leave the range: no call panics, and no         *)
(* negation, running sum or product of the call overflows (and wraps).     *)
(***************************************************************************)
C12_NoOverflow ==
    /\ pc # "panic"
    /\ op = "negate" => ~NegateOverflows(a)
    /\ op = "sum" => ~ReduceOverflows(a, "sum")
    /\ op = "count" => ~ReduceOverflows(a, "count")
    /\ op = "join" => ~JoinOverflows(a, b)

(***************************************************************************)
(* C13. The groups reduce hands to its closure partition the collection:   *)
(* every group is non-empty and holds pairs of its own record only, every  *)
(* pair of the collection is in the group of its record as often as in the *)
(* collection and in no other group, with its own multiplicity; the        *)
(* closure is called once per group, never for an empty collection; count  *)
(* returns, per record, the number of the record's pairs.                  *)
(***************************************************************************)
C13_GroupsArePartition(coll) ==
    /\ \A k \in KeysOf(coll) :
          /\ Group(coll, k) # <<>>
          /\ \A i \in 1..Len(Group(coll, k)) : Group(coll, k)[i].record = k
    /\ \A i \in 1..Len(coll), k \in KeysOf(coll) :
          Occurrences(Group(coll, k), coll[i]) =
              (IF k = coll[i].record THEN Occurrences(coll, coll[i]) ELSE 0)
    /\ \A order \in KeyOrders(coll) :
          /\ Len(order) = Cardinality(KeysOf(coll))
          /\ {order[i] : i \in 1..Len(order)} = KeysOf(coll)

C13_ReduceGroupsPartition ==
    (pc = "idle" /\ op \in {"count", "sum", "distinct", "consolidate"}) =>
        /\ C13_GroupsArePartition(a)
        /\ a = <<>> => out = <<>>
        /\ op = "count" =>
              /\ Len(out) = Cardinality(KeysOf(a))
              /\ \A k \in KeysOf(a) :
                    \E i \in 1..Len(out) :
                        out[i] = MultiSet(k, Cardinality(PositionsOf(a, k)))

\* count has run on two records, one of them with two pairs of different
\* multiplicities, an absent one among them.
C13_Witness ==
    /\ pc = "idle"
    /\ op = "count"
    /\ Cardinality(KeysOf(a)) = 2
    /\ \E i, j \in 1..Len(a) :
          /\ i # j
          /\ a[i].record = a[j].record
          /\ a[i].multiplicity = 0
          /\ a[j].multiplicity = -1
    /\ \E i \in 1..Len(out) : out[i].multiplicity = 2

(***************************************************************************)
(* C14. join is commutative under collection equality: join(A, B) ==       *)
(* join(B, A), also when a record has several pairs in A or in B.          *)
(***************************************************************************)
C14_JoinCommutes ==
    (pc = "idle" /\ op = "join") => CollectionEq(out, Join(b, a))

\* join has run on two collections that each hold one record twice, with
\* different multiplicities, and has returned a pair.
C14_Witness ==
    /\ pc = "idle"
    /\ op = "join"
    /\ Len(a) = 2 /\ a[1].record = a[2].record
    /\ a[1].multiplicity = 2 /\ a[2].multiplicity = -1
    /\ Len(b) = 2 /\ b[1].record = b[2].record
    /\ b[1].multiplicity = -1 /\ b[2].multiplicity = 2
    /\ out # <<>>
====
